---- MODULE Spec2Model ----
(***************************************************************************)
(* Warehouse inventory app (src/app.py): a Streamlit script that keeps a   *)
(* ledger of signed-quantity rows in one Google Sheets worksheet.  Every   *)
(* interaction of a browser session re-runs the script from the top: it    *)
(* reads the whole sheet, evaluates the widgets, runs the handler of the   *)
(* pressed button (which overwrites the whole sheet) and renders the       *)
(* aggregate "Live List".                                                  *)
(*                                                                         *)
(* Strings that the code normalises or sorts (model numbers, typed text)   *)
(* are sequences of one-character strings, so that upper(), strip() and    *)
(* sorted() are computed, not assumed.                                     *)
(***************************************************************************)
EXTENDS Integers, Sequences, FiniteSets, TLC

VARIABLES
    store,          \* the worksheet "Sheet1": [columns, rows]
    cache,          \* st.cache_data: << >> or <<sheet>> (the cached read)
    authenticated,  \* st.session_state.authenticated, per session
    pwd_input,      \* per session: the text of the password box at the latest login press
    pc,             \* per session: "idle", "body" (sheet read, handler next), "run" (st.rerun pending)
    btn,            \* per session: the button whose handler the current run executes
    df_log,         \* per session: the ledger rows read by the latest run
    loc,            \* per session: the Location selectbox
    qty_input,      \* per session: st.session_state.qty_input
    model_input,    \* per session: st.session_state.model_input
    quick_select,   \* per session: st.session_state.quick_select
    msg,            \* per session: what the latest run showed (error, warning, exception)
    report,         \* per session: report_rows as last computed
    update_calls,   \* per session: the conn.update calls the latest run has made
    hist            \* history variable: <<kind, ledger>>.  kind is "submitted" while the
                    \* store's latest write is a submission, "undone" once the write after
                    \* that submission was an undo-last, else "none"; ledger is what the
                    \* store held before the submission

vars == <<store, cache, authenticated, pwd_input, pc, btn, df_log, loc, qty_input,
          model_input, quick_select, msg, report, update_calls, hist>>

----------------------------------------------------------------------------
(* Bounds of the model *)

\* the ledger never grows beyond MaxRows rows (add/sub are not pressed on a full ledger)
MaxRows == 2
\* the quantity spinner offers 1..MaxQty
MaxQty == 2

\* the browser sessions
AllSessions == {1, 2}

(* Constants of the program *)

\* conn.read(..., ttl=0)
ReadTTL == 0

Locations == {"Warehouse", "Assembly", "Suspect"}

CanonicalColumns == {"Timestamp", "Action", "Model", "Location", "Quantity"}

\* what the operator can type into the model text box
RawTexts == { <<>>, <<" ">>, <<"a">>, <<" ", "b", " ">> }

\* what the operator can type into the password box
Passwords == {"blackbelt", "Blackbelt"}

\* st.secrets.get("app_password", "blackbelt")
correct_password == "blackbelt"

\* how a conn.update call can end: done, refused by the API for rate limit or quota
\* (HTTP 429), or failed for another reason
WriteOutcomes == {"ok", "quota", "error"}

\* "-- Type/Scan New Model Below --"
Placeholder ==
    <<"-", "-", " ", "T", "y", "p", "e", "/", "S", "c", "a", "n", " ", "N", "e", "w", " ",
      "M", "o", "d", "e", "l", " ", "B", "e", "l", "o", "w", " ", "-", "-">>

----------------------------------------------------------------------------
(* Strings *)

\* str.upper() on one character
UpperChar(c) ==
    CASE c = "a" -> "A"
      [] c = "b" -> "B"
      [] OTHER -> c

Upper(t) == [i \in 1..Len(t) |-> UpperChar(t[i])]

IsSpace(c) == c = " "

RECURSIVE LStrip(_)
LStrip(t) == IF t # <<>> /\ IsSpace(Head(t)) THEN LStrip(Tail(t)) ELSE t

RECURSIVE RStrip(_)
RStrip(t) == IF t # <<>> /\ IsSpace(t[Len(t)]) THEN RStrip(SubSeq(t, 1, Len(t) - 1)) ELSE t

\* str.strip()
Strip(t) == RStrip(LStrip(t))

\* code point of a character, for sorted()
Ord(c) ==
    CASE c = " " -> 32
      [] c = "A" -> 65
      [] c = "B" -> 66
      [] c = "a" -> 97
      [] c = "b" -> 98
      [] OTHER -> 0

\* a < b for Python strings
RECURSIVE StrLess(_, _)
StrLess(a, b) ==
    IF b = <<>> THEN FALSE
    ELSE IF a = <<>> THEN TRUE
    ELSE IF Ord(Head(a)) # Ord(Head(b)) THEN Ord(Head(a)) < Ord(Head(b))
    ELSE StrLess(Tail(a), Tail(b))

\* sorted(S) for a set of strings
RECURSIVE Sorted(_)
Sorted(S) ==
    IF S = {} THEN <<>>
    ELSE LET least == CHOOSE x \in S : \A y \in S \ {x} : StrLess(x, y)
         IN <<least>> \o Sorted(S \ {least})

Range(f) == {f[i] : i \in DOMAIN f}

----------------------------------------------------------------------------
(* The sheet and the ledger *)

\* pd.DataFrame(columns=[...]) written to the sheet: the canonical header, no rows
EmptySheet == [columns |-> CanonicalColumns, rows |-> <<>>]

\* a worksheet nobody has written to yet
BlankSheet == [columns |-> {}, rows |-> <<>>]

\* what conn.update(worksheet="Sheet1", data=df) leaves in the sheet
SheetOf(rows) == [columns |-> CanonicalColumns, rows |-> rows]

\* mutant of ReadLedger: the rows of the sheet, whatever its header
ReadLedgerRaw(sheet) == sheet.rows

\* lines 36-40: the rows of the sheet, or an empty canonical frame
ReadLedger(sheet) ==
    IF Cardinality(sheet.columns) = 0 \/ "Model" \notin sheet.columns
    THEN <<>>
    ELSE sheet.rows

\* st.cache_data serves an entry while its age is below the ttl; ages are >= 0
CacheServes(c) == c # <<>> /\ 0 < ReadTTL

\* conn.read(worksheet="Sheet1", ttl=0): the sheet the read returns
ReadSheet(c, sheet) == IF CacheServes(c) THEN c[1] ELSE sheet

\* the cache after the read
CacheAfterRead(c, sheet) == IF CacheServes(c) THEN c ELSE <<sheet>>

\* mutant of CacheAfterClear: the clear is left out
CacheKept(c) == c

\* st.cache_data.clear()
CacheAfterClear(c) == <<>>

\* df_log.empty
IsEmpty(df) == Len(df) = 0

\* sorted(df_log['Model'].dropna().unique().tolist())
ExistingModels(df) == IF IsEmpty(df) THEN <<>> ELSE Sorted({df[i].Model : i \in DOMAIN df})

\* the options of the quick-select dropdown
Options(df) == <<Placeholder>> \o ExistingModels(df)

----------------------------------------------------------------------------
(* Widgets: lines 85-110 *)

\* model_selected: the dropdown's value, None (<<>>) when the dropdown is not shown
ModelSelected(df, qs) == IF ExistingModels(df) # <<>> THEN qs ELSE <<>>

\* mutant of ModelTyped: model_typed_raw.upper()
ModelTypedUnstripped(text) == Upper(text)

\* model_typed = model_typed_raw.upper().strip()
ModelTyped(text) == Strip(Upper(text))

\* model: the dropdown's model if one is chosen, else the typed text, else ""
EffectiveModel(df, qs, text) ==
    LET model_selected == ModelSelected(df, qs)
        model_typed == ModelTyped(text)
    IN IF model_selected # <<>> /\ model_selected # Placeholder THEN model_selected
       ELSE IF model_typed # <<>> THEN model_typed
       ELSE <<>>

\* the dropdown shows the session's value when it is one of its options, else its first option
ShownSelection(df, qs) == IF qs \in Range(Options(df)) THEN qs ELSE Placeholder

----------------------------------------------------------------------------
(* modify_inventory: the row it builds, lines 118-128 *)

\* mutant of Change: change = qty
ChangeUnsigned(direction, qty) == qty

\* change = qty if direction == "add" else -qty
Change(direction, qty) == IF direction = "add" THEN qty ELSE -qty

\* action_word = "Added" if direction == "add" else "Removed"
ActionWord(direction) == IF direction = "add" THEN "Added" ELSE "Removed"

\* datetime.now().strftime("%Y-%m-%d %H:%M:%S").  No line of the script reads a
\* Timestamp back except to print it (line 228), so the model stamps every row alike.
strftime_now == "YYYY-mm-dd HH:MM:SS"

NewRow(direction, model, l, qty, t) ==
    [Timestamp |-> t,
     Action    |-> ActionWord(direction),
     Model     |-> model,
     Location  |-> l,
     Quantity  |-> Change(direction, qty)]

\* mutant of Concat: the new row is put first
Prepended(df, row) == <<row>> \o df

\* pd.concat([df_log, new_row], ignore_index=True)
Concat(df, row) == Append(df, row)

\* mutant of AllButLast: df_log.iloc[1:]
AllButFirst(df) == SubSeq(df, 2, Len(df))

\* df_log.iloc[:-1]
AllButLast(df) == SubSeq(df, 1, Len(df) - 1)

\* a worksheet that holds a row under a header whose "Model" cell was renamed by hand
\* (the fields of a row name its cells by position)
RenamedSheet ==
    [columns |-> (CanonicalColumns \ {"Model"}) \cup {"Item"},
     rows    |-> <<NewRow("add", <<"A">>, "Warehouse", 1, strftime_now)>>]

----------------------------------------------------------------------------
(* The Live List: lines 176-197 *)

\* mutant of GroupSum: .last() for .sum(), the Quantity of the group's last row
GroupLast(df, m, l) ==
    LET I == {i \in DOMAIN df : df[i].Model = m /\ df[i].Location = l}
    IN IF I = {} THEN 0 ELSE df[CHOOSE i \in I : \A j \in I : j <= i].Quantity

\* the sum of Quantity over the rows of one (Model, Location) group, in ledger order
RECURSIVE GroupSum(_, _, _)
GroupSum(df, m, l) ==
    IF df = <<>> THEN 0
    ELSE (IF Head(df).Model = m /\ Head(df).Location = l THEN Head(df).Quantity ELSE 0)
         + GroupSum(Tail(df), m, l)

\* df_log.groupby(['Model', 'Location'])['Quantity'].sum(): one entry per group that occurs
Summary(df) ==
    [k \in {<<df[i].Model, df[i].Location>> : i \in DOMAIN df} |-> GroupSum(df, k[1], k[2])]

\* model_data[model_data['Location'] == l]['Quantity'].sum(): 0 when the group does not occur
LocSum(summary, m, l) == IF <<m, l>> \in DOMAIN summary THEN summary[<<m, l>>] ELSE 0

\* mutant of Total: total = wh
TotalWarehouseOnly(wh, asm) == wh

\* total = wh + asm
Total(wh, asm) == wh + asm

\* mutant of ReportRow: total = wh + asm + susp
ReportRowAllLocations(summary, m) ==
    LET wh == LocSum(summary, m, "Warehouse")
        asm == LocSum(summary, m, "Assembly")
        susp == LocSum(summary, m, "Suspect")
    IN [Model |-> m, Warehouse |-> wh, Assembly |-> asm, Total |-> wh + asm + susp,
        Suspect |-> susp]

\* the dictionary appended for model m
ReportRow(summary, m) ==
    LET wh == LocSum(summary, m, "Warehouse")
        asm == LocSum(summary, m, "Assembly")
        susp == LocSum(summary, m, "Suspect")
    IN [Model |-> m, Warehouse |-> wh, Assembly |-> asm, Total |-> Total(wh, asm),
        Suspect |-> susp]

\* mutant of Shown: if total != 0
ShownByTotal(r) == r.Total # 0

\* if total != 0 or susp != 0
Shown(r) == r.Total # 0 \/ r.Suspect # 0

\* the loop over unique_models
RECURSIVE BuildReport(_, _)
BuildReport(summary, models) ==
    IF models = <<>> THEN <<>>
    ELSE LET r == ReportRow(summary, Head(models))
         IN (IF Shown(r) THEN <<r>> ELSE <<>>) \o BuildReport(summary, Tail(models))

\* report_rows
ReportRows(df) ==
    IF IsEmpty(df) THEN <<>>
    ELSE LET summary == Summary(df)
             unique_models == Sorted({k[1] : k \in DOMAIN summary})
         IN BuildReport(summary, unique_models)

----------------------------------------------------------------------------
(* The session machine *)

Buttons == {"add", "sub", "undo", "wipe"}

Init ==
    /\ store \in {BlankSheet, RenamedSheet, EmptySheet}
    /\ cache = <<>>
    /\ authenticated = [s \in AllSessions |-> FALSE]
    /\ pwd_input = [s \in AllSessions |-> ""]
    /\ pc = [s \in AllSessions |-> "idle"]
    /\ btn = [s \in AllSessions |-> "none"]
    /\ df_log = [s \in AllSessions |-> <<>>]
    /\ loc = [s \in AllSessions |-> "Warehouse"]
    /\ qty_input = [s \in AllSessions |-> 1]
    /\ model_input = [s \in AllSessions |-> <<>>]
    /\ quick_select = [s \in AllSessions |-> Placeholder]
    /\ msg = [s \in AllSessions |-> "locked"]
    /\ report = [s \in AllSessions |-> <<>>]
    /\ update_calls = [s \in AllSessions |-> 0]
    /\ hist = <<"none", <<>>>>

\* mutant of PasswordMatches: any text that is entered passes
PasswordEntered(pwd) == pwd # ""

\* line 19: pwd == correct_password
PasswordMatches(pwd) == pwd = correct_password

\* lines 11-28: the gate.  Nothing below line 28 runs while authenticated is False.
Login(s, pwd) ==
    /\ ~authenticated[s]
    /\ pc[s] = "idle"
    /\ pwd_input' = [pwd_input EXCEPT ![s] = pwd]
    /\ IF PasswordMatches(pwd)
       THEN /\ authenticated' = [authenticated EXCEPT ![s] = TRUE]
            /\ pc' = [pc EXCEPT ![s] = "run"]           \* st.rerun()
            /\ msg' = [msg EXCEPT ![s] = "none"]
       ELSE /\ msg' = [msg EXCEPT ![s] = "denied"]      \* st.error, st.stop
            /\ UNCHANGED <<authenticated, pc>>
    /\ UNCHANGED <<store, cache, btn, df_log, loc, qty_input, model_input,
                   quick_select, report, update_calls, hist>>

\* One run of the script from line 30 with the widget values l, q, text, qs and the
\* button b pressed ("none": no button).  The run reads the sheet (lines 34-46); a
\* failed read stops it.  With no button pressed the run goes through to the Live
\* List; with a button pressed it stops short of that button's handler, which is
\* the next step of this session (other sessions may write in between).
ScriptRun(s, l, q, text, qs, b, readOk) ==
    LET sheet == ReadSheet(cache, store)
        df == ReadLedger(sheet)
    IN /\ loc' = [loc EXCEPT ![s] = l]
       /\ update_calls' = [update_calls EXCEPT ![s] = 0]
       /\ qty_input' = [qty_input EXCEPT ![s] = q]
       /\ model_input' = [model_input EXCEPT ![s] = text]
       /\ IF readOk
          THEN /\ df_log' = [df_log EXCEPT ![s] = df]
               /\ cache' = CacheAfterRead(cache, store)
               /\ quick_select' = [quick_select EXCEPT ![s] = ShownSelection(df, qs)]
               /\ btn' = [btn EXCEPT ![s] = b]
               /\ msg' = [msg EXCEPT ![s] = "none"]
               /\ IF b = "none"
                  THEN /\ pc' = [pc EXCEPT ![s] = "idle"]
                       /\ report' = [report EXCEPT ![s] = ReportRows(df)]
                  ELSE /\ pc' = [pc EXCEPT ![s] = "body"]
                       /\ UNCHANGED report
          ELSE /\ quick_select' = [quick_select EXCEPT ![s] = qs]
               /\ btn' = [btn EXCEPT ![s] = "none"]
               /\ msg' = [msg EXCEPT ![s] = "read_error"]
               /\ pc' = [pc EXCEPT ![s] = "stopped"]    \* st.stop()
               /\ UNCHANGED <<df_log, cache, report>>
       /\ UNCHANGED <<store, authenticated, pwd_input, hist>>

Interactive(s) == authenticated[s] /\ pc[s] = "idle"

\* the operator picks another location
SetLoc(s, l, readOk) ==
    /\ Interactive(s)
    /\ l # loc[s]
    /\ ScriptRun(s, l, qty_input[s], model_input[s], quick_select[s], "none", readOk)

\* the operator changes the quantity (min_value=1)
SetQty(s, q, readOk) ==
    /\ Interactive(s)
    /\ q >= 1
    /\ q # qty_input[s]
    /\ ScriptRun(s, loc[s], q, model_input[s], quick_select[s], "none", readOk)

\* mutant of TextAfterDropdown: the text box is left as it is
TextKeptAfterDropdown(m, text) == text

\* lines 75-77: choosing a model in the dropdown clears the text box
TextAfterDropdown(m, text) == IF m # Placeholder THEN <<>> ELSE text

\* lines 80-82: typing a non-blank text puts the dropdown back on the placeholder
QuickSelectAfterText(t, qs) == IF Strip(t) # <<>> THEN Placeholder ELSE qs

\* lines 74-77, then the run
on_dropdown_change(s, m, readOk) ==
    /\ Interactive(s)
    /\ ExistingModels(df_log[s]) # <<>>
    /\ m \in Range(Options(df_log[s]))
    /\ m # quick_select[s]
    /\ ScriptRun(s, loc[s], qty_input[s],
                 TextAfterDropdown(m, model_input[s]), m, "none", readOk)

\* lines 79-82, then the run
on_text_change(s, t, readOk) ==
    /\ Interactive(s)
    /\ t # model_input[s]
    /\ ScriptRun(s, loc[s], qty_input[s], t,
                 QuickSelectAfterText(t, quick_select[s]), "none", readOk)

\* a button is pressed: the run up to its handler
Press(s, b, readOk) ==
    /\ Interactive(s)
    /\ b \in {"add", "sub"} => Len(ReadLedger(ReadSheet(cache, store))) < MaxRows
    /\ ScriptRun(s, loc[s], qty_input[s], model_input[s], quick_select[s], b, readOk)

\* st.rerun(), or the operator reruns a stopped script
Rerun(s, readOk) ==
    /\ authenticated[s]
    /\ pc[s] \in {"run", "stopped"}
    /\ ScriptRun(s, loc[s], qty_input[s], model_input[s], quick_select[s], "none", readOk)

----------------------------------------------------------------------------
(* The handlers *)

\* the keyed widgets the run has instantiated when it reaches the buttons:
\* qty_input (line 58), quick_select (line 88, only with history), model_input (line 96)
WidgetKeysThisRun(df) ==
    {"qty_input", "model_input"}
        \cup (IF ExistingModels(df) # <<>> THEN {"quick_select"} ELSE {})

\* st.session_state[key] = value raises StreamlitAPIException ("cannot be modified
\* after the widget with key ... is instantiated") once the widget with that key has
\* been instantiated in the running script.  modify_inventory is called from the
\* script body (line 163), below the widgets, not from an on_click callback.
CanAssign(key, df) == key \notin WidgetKeysThisRun(df)

\* lines 139-141, in order; the first assignment that raises ends the run
ResetForm(df, q, text, qs) ==
    IF ~CanAssign("qty_input", df)
    THEN [qty |-> q, text |-> text, qs |-> qs, raised |-> TRUE]
    ELSE IF ~CanAssign("model_input", df)
    THEN [qty |-> 1, text |-> text, qs |-> qs, raised |-> TRUE]
    ELSE IF ~CanAssign("quick_select", df)
    THEN [qty |-> 1, text |-> <<>>, qs |-> qs, raised |-> TRUE]
    ELSE [qty |-> 1, text |-> <<>>, qs |-> Placeholder, raised |-> FALSE]

\* mutant of UpdatedByModify: the row is appended to what the sheet holds at the write
UpdatedByAppendToSheet(df, direction, model, l, qty, t) ==
    SheetOf(Concat(ReadLedger(store), NewRow(direction, model, l, qty, t)))

\* the sheet after modify_inventory's conn.update
UpdatedByModify(df, direction, model, l, qty, t) ==
    SheetOf(Concat(df, NewRow(direction, model, l, qty, t)))

\* mutant of UpdatedByUndo: the last row of what the sheet holds at the write is dropped
UpdatedByUndoOfSheet(df) == SheetOf(AllButLast(ReadLedger(store)))

\* the sheet after undo_last's conn.update
UpdatedByUndo(df) == SheetOf(AllButLast(df))

\* the sheet after the wipe button's conn.update
UpdatedByWipe == EmptySheet

\* the run goes on to the Live List (a handler returned early)
RenderAfter(s) ==
    /\ report' = [report EXCEPT ![s] = ReportRows(df_log[s])]
    /\ pc' = [pc EXCEPT ![s] = "idle"]

\* st.button is True only in the run its press started
ButtonReleased(s) == btn' = [btn EXCEPT ![s] = "none"]

\* conn.update raised: nothing catches it, the exception ends the run where it is.
\* The overwrite is all-or-nothing: a failed conn.update leaves the sheet as it was.
WriteRaised(s, outcome) ==
    /\ msg' = [msg EXCEPT ![s] = IF outcome = "quota" THEN "quota_exception"
                                                      ELSE "write_exception"]
    /\ pc' = [pc EXCEPT ![s] = "idle"]
    /\ update_calls' = [update_calls EXCEPT ![s] = @ + 1]
    /\ UNCHANGED <<store, cache, hist>>

\* lines 114-116
ModifyRejected(s) ==
    /\ msg' = [msg EXCEPT ![s] = "enter_model"]
    /\ RenderAfter(s)
    /\ UNCHANGED <<store, cache, qty_input, model_input, quick_select, update_calls, hist>>

\* mutant of ModifyWriteFailed: the form is reset before conn.update is called
ModifyWriteFailedAfterReset(s, outcome) ==
    /\ WriteRaised(s, outcome)
    /\ qty_input' = [qty_input EXCEPT ![s] = 1]
    /\ model_input' = [model_input EXCEPT ![s] = <<>>]
    /\ quick_select' = [quick_select EXCEPT ![s] = Placeholder]
    /\ UNCHANGED report

\* line 135 raises: lines 136-143 do not run
ModifyWriteFailed(s, outcome) ==
    /\ WriteRaised(s, outcome)
    /\ UNCHANGED <<qty_input, model_input, quick_select, report>>

\* lines 135-143 with the write done
ModifySaved(s, model) ==
    LET form == ResetForm(df_log[s], qty_input[s], model_input[s], quick_select[s])
    IN /\ store' = UpdatedByModify(df_log[s], btn[s], model, loc[s], qty_input[s], strftime_now)
       /\ cache' = CacheAfterClear(cache)
       /\ update_calls' = [update_calls EXCEPT ![s] = @ + 1]
       /\ qty_input' = [qty_input EXCEPT ![s] = form.qty]
       /\ model_input' = [model_input EXCEPT ![s] = form.text]
       /\ quick_select' = [quick_select EXCEPT ![s] = form.qs]
       /\ IF form.raised
          THEN /\ msg' = [msg EXCEPT ![s] = "saved_then_api_exception"]
               /\ pc' = [pc EXCEPT ![s] = "idle"]
          ELSE /\ msg' = [msg EXCEPT ![s] = "saved"]
               /\ pc' = [pc EXCEPT ![s] = "run"]          \* st.rerun()
       /\ hist' = <<"submitted", ReadLedger(store)>>
       /\ UNCHANGED report

\* mutant of Rejected: a removal of more than the location holds is refused
RejectedWhenShort(df, direction, model, l, qty) ==
    model = <<>> \/ (direction = "sub" /\ GroupSum(df, model, l) < qty)

\* line 114: if not model
Rejected(df, direction, model, l, qty) == model = <<>>

\* lines 113-143, called from lines 162-166
modify_inventory(s, outcome) ==
    /\ authenticated[s]
    /\ pc[s] = "body"
    /\ btn[s] \in {"add", "sub"}
    /\ LET model == EffectiveModel(df_log[s], quick_select[s], model_input[s])
       IN IF Rejected(df_log[s], btn[s], model, loc[s], qty_input[s]) THEN ModifyRejected(s)
          ELSE IF outcome # "ok" THEN ModifyWriteFailed(s, outcome)
          ELSE ModifySaved(s, model)
    /\ ButtonReleased(s)
    /\ UNCHANGED <<authenticated, pwd_input, df_log, loc>>

\* mutant of UndoNothing: the warning is shown and the sheet written all the same
UndoNothingAfterWrite(s) ==
    /\ msg' = [msg EXCEPT ![s] = "nothing_to_undo"]
    /\ RenderAfter(s)
    /\ store' = UpdatedByUndo(df_log[s])
    /\ cache' = CacheAfterClear(cache)
    /\ update_calls' = [update_calls EXCEPT ![s] = @ + 1]
    /\ UNCHANGED hist

\* lines 146-148
UndoNothing(s) ==
    /\ msg' = [msg EXCEPT ![s] = "nothing_to_undo"]
    /\ RenderAfter(s)
    /\ UNCHANGED <<store, cache, update_calls, hist>>

\* lines 151-156 with the write done
UndoSaved(s) ==
    /\ store' = UpdatedByUndo(df_log[s])
    /\ cache' = CacheAfterClear(cache)
    /\ update_calls' = [update_calls EXCEPT ![s] = @ + 1]
    /\ msg' = [msg EXCEPT ![s] = "undone"]
    /\ pc' = [pc EXCEPT ![s] = "run"]                     \* st.rerun()
    /\ hist' = IF hist[1] = "submitted" THEN <<"undone", hist[2]>> ELSE <<"none", <<>>>>
    /\ UNCHANGED report

\* lines 145-156, called from line 169
undo_last(s, outcome) ==
    /\ authenticated[s]
    /\ pc[s] = "body"
    /\ btn[s] = "undo"
    /\ IF IsEmpty(df_log[s]) THEN UndoNothing(s)
       ELSE IF outcome # "ok" THEN WriteRaised(s, outcome) /\ UNCHANGED report
       ELSE UndoSaved(s)
    /\ ButtonReleased(s)
    /\ UNCHANGED <<authenticated, pwd_input, df_log, loc, qty_input, model_input, quick_select>>

\* mutant of WipeSaved: the cache is cleared and the script rerun, the sheet not written
WipeWithoutUpdate(s) ==
    /\ cache' = CacheAfterClear(cache)
    /\ msg' = [msg EXCEPT ![s] = "wiped"]
    /\ pc' = [pc EXCEPT ![s] = "run"]
    /\ update_calls' = [update_calls EXCEPT ![s] = @ + 1]
    /\ UNCHANGED <<store, hist>>

\* lines 236-240 with the write done
WipeSaved(s) ==
    /\ store' = UpdatedByWipe
    /\ cache' = CacheAfterClear(cache)
    /\ update_calls' = [update_calls EXCEPT ![s] = @ + 1]
    /\ msg' = [msg EXCEPT ![s] = "wiped"]
    /\ pc' = [pc EXCEPT ![s] = "run"]                     \* st.rerun()
    /\ hist' = <<"none", <<>>>>

\* lines 234-240; the Live List (lines 176-220) is drawn before the button is reached
wipe(s, outcome) ==
    /\ authenticated[s]
    /\ pc[s] = "body"
    /\ btn[s] = "wipe"
    /\ report' = [report EXCEPT ![s] = ReportRows(df_log[s])]
    /\ IF outcome # "ok" THEN WriteRaised(s, outcome) ELSE WipeSaved(s)
    /\ ButtonReleased(s)
    /\ UNCHANGED <<authenticated, pwd_input, df_log, loc, qty_input, model_input, quick_select>>

----------------------------------------------------------------------------
(* Specifications *)

\* the steps of one operator session, with every input and every store failure
Operator(s) ==
    \/ \E pwd \in Passwords : Login(s, pwd)
    \/ \E l \in Locations, ok \in BOOLEAN : SetLoc(s, l, ok)
    \/ \E q \in 1..MaxQty, ok \in BOOLEAN : SetQty(s, q, ok)
    \/ \E m \in Range(Options(df_log[s])), ok \in BOOLEAN : on_dropdown_change(s, m, ok)
    \/ \E t \in RawTexts, ok \in BOOLEAN : on_text_change(s, t, ok)
    \/ \E b \in Buttons, ok \in BOOLEAN : Press(s, b, ok)
    \/ \E ok \in BOOLEAN : Rerun(s, ok)
    \/ \E outcome \in WriteOutcomes : modify_inventory(s, outcome)
    \/ \E outcome \in WriteOutcomes : undo_last(s, outcome)
    \/ \E outcome \in WriteOutcomes : wipe(s, outcome)

\* a single session, no other writer
Next == Operator(1)

Spec == Init /\ [][Next]_vars

\* two logged-in sessions on one sheet, each typing a model and pressing ADD
RaceTexts == { <<"a">>, <<" ", "b", " ">> }

Racer(s) ==
    \/ Login(s, correct_password)
    \/ Rerun(s, TRUE)
    \/ \E t \in RaceTexts : on_text_change(s, t, TRUE)
    \/ Press(s, "add", TRUE)
    \/ modify_inventory(s, "ok")

NextMulti == \E s \in AllSessions : Racer(s)

SpecMulti == Init /\ [][NextMulti]_vars

\* two sessions that add rows and undo, over a store that never fails
RacerUndo(s) ==
    \/ Login(s, correct_password)
    \/ Rerun(s, TRUE)
    \/ \E t \in RaceTexts : on_text_change(s, t, TRUE)
    \/ \E b \in {"add", "undo"} : Press(s, b, TRUE)
    \/ modify_inventory(s, "ok")
    \/ undo_last(s, "ok")

NextRace == \E s \in AllSessions : RacerUndo(s)

SpecRace == Init /\ [][NextRace]_vars

----------------------------------------------------------------------------
(* Vocabulary of the properties *)

\* the ledgers a state holds: the store's, and each session's latest read
LedgersInState == {ReadLedger(store)} \cup {df_log[s] : s \in AllSessions}

ModelsOf(L) == {L[i].Model : i \in DOMAIN L}

\* the sum of the signed Quantity of the rows of L with model m at location l,
\* taken over the set of matching row numbers, in no particular order
RECURSIVE SumAt(_, _)
SumAt(L, I) ==
    IF I = {} THEN 0
    ELSE LET i == CHOOSE x \in I : TRUE IN L[i].Quantity + SumAt(L, I \ {i})

SignedSum(L, m, l) == SumAt(L, {i \in DOMAIN L : L[i].Model = m /\ L[i].Location = l})

\* L with its rows rearranged by the permutation p of its row numbers
Rearranged(L, p) == [i \in DOMAIN L |-> L[p[i]]]

WithoutSuspect(L) == SelectSeq(L, LAMBDA r : r.Location # "Suspect")

\* the text holds nothing but whitespace
Blank(t) == \A i \in DOMAIN t : t[i] = " "

\* the latest run of session s got as far as the Live List
Rendered(s) == pc[s] = "idle" /\ msg[s] \in {"none", "enter_model", "nothing_to_undo"}

\* the latest run of session s ended in a store write that succeeded
WriteDone(s) == msg[s] \in {"saved", "saved_then_api_exception", "undone", "wiped"}

Submitted(s) == msg[s] \in {"saved", "saved_then_api_exception"}

\* what a session shows when a conn.update call of its latest run raised
WriteFailures == {"write_exception", "quota_exception"}

----------------------------------------------------------------------------
(* Properties *)

\* C1: in every ledger the application reaches, each subtotal the Live List shows
\* for a (model, location) pair is the sum of the signed quantities of the
\* ledger's rows of that pair, and the Live List is the same for every
\* rearrangement of the ledger's rows.
C1_SubtotalsAreSignedSums ==
    \A L \in LedgersInState :
        LET V == ReportRows(L)
        IN /\ \A i \in DOMAIN V :
                /\ V[i].Warehouse = SignedSum(L, V[i].Model, "Warehouse")
                /\ V[i].Assembly = SignedSum(L, V[i].Model, "Assembly")
                /\ V[i].Suspect = SignedSum(L, V[i].Model, "Suspect")
           /\ \A p \in Permutations(DOMAIN L) : ReportRows(Rearranged(L, p)) = V

\* two different rows of one (model, location) pair, committed and shown
C1_Witness ==
    LET L == ReadLedger(store)
    IN /\ Len(L) = 2
       /\ L[1] # L[2]
       /\ L[1].Model = L[2].Model
       /\ L[1].Location = L[2].Location
       /\ L[1].Quantity + L[2].Quantity # 0
       /\ Rendered(1)
       /\ report[1] = ReportRows(L)

\* C2: in every row of the Live List Total is Warehouse plus Assembly, and the
\* rows at Suspect change no model's Total.
C2_TotalExcludesSuspect ==
    /\ \A L \in LedgersInState :
           /\ \A i \in DOMAIN ReportRows(L) :
                  ReportRows(L)[i].Total = ReportRows(L)[i].Warehouse + ReportRows(L)[i].Assembly
           /\ \A m \in ModelsOf(L) :
                  ReportRow(Summary(L), m).Total = ReportRow(Summary(WithoutSuspect(L)), m).Total
    /\ \A s \in AllSessions : \A i \in DOMAIN report[s] :
           report[s][i].Total = report[s][i].Warehouse + report[s][i].Assembly

\* a model shown with a Suspect subtotal next to a Total that it is no part of
C2_Witness ==
    /\ Rendered(1)
    /\ \E i \in DOMAIN report[1] : report[1][i].Suspect # 0 /\ report[1][i].Total # 0

\* C3: a model of the ledger has a row in the Live List exactly when its Total or
\* its Suspect subtotal is not zero; the Live List has rows for models of the
\* ledger only, and at most one per model.
C3_ShownIffNonZero ==
    \A L \in LedgersInState :
        LET V == ReportRows(L)
            total(m) == SignedSum(L, m, "Warehouse") + SignedSum(L, m, "Assembly")
        IN /\ \A m \in ModelsOf(L) :
                (\E i \in DOMAIN V : V[i].Model = m)
                    <=> (total(m) # 0 \/ SignedSum(L, m, "Suspect") # 0)
           /\ \A i \in DOMAIN V : V[i].Model \in ModelsOf(L)
           /\ \A i, j \in DOMAIN V : i # j => V[i].Model # V[j].Model

\* a ledger of two rows whose only model nets to zero, drawn as an empty list
C3_Witness ==
    LET L == ReadLedger(store)
    IN /\ Len(L) = 2
       /\ Rendered(1)
       /\ df_log[1] = L
       /\ report[1] = <<>>

\* C4: with one session, once a successful add or sub has been followed by a
\* successful undo-last as the store's next write, the store's ledger is, row for
\* row, the ledger from before the submission, and the Live List drawn from then
\* on is the Live List of that ledger; while the submission is the latest write
\* the store holds that ledger plus exactly one row.
C4_UndoRestoresLedger ==
    /\ hist[1] = "submitted" =>
           /\ Len(ReadLedger(store)) = Len(hist[2]) + 1
           /\ SubSeq(ReadLedger(store), 1, Len(ReadLedger(store)) - 1) = hist[2]
    /\ hist[1] = "undone" =>
           /\ ReadLedger(store) = hist[2]
           /\ Rendered(1) => report[1] = ReportRows(hist[2])

\* an add on top of a ledger that already has a row, undone, and the list redrawn
C4_Witness ==
    /\ hist[1] = "undone"
    /\ hist[2] # <<>>
    /\ Rendered(1)
    /\ report[1] # <<>>

\* C5: after a successful wipe the next read of the store returns no rows, and the
\* Live List computed from it has no rows.
C5_WipeLeavesNoRows ==
    \A s \in AllSessions :
        msg[s] = "wiped" =>
            /\ ReadLedger(ReadSheet(cache, store)) = <<>>
            /\ ReportRows(ReadLedger(ReadSheet(cache, store))) = <<>>

\* a wipe of a ledger that had rows, and a Live List that showed some
C5_Witness ==
    /\ msg[1] = "wiped"
    /\ df_log[1] # <<>>
    /\ report[1] # <<>>

\* C6: an add or sub whose typed text is blank while the quick-select holds its
\* placeholder writes nothing: store, cache, the session's ledger and the three
\* inputs stay as they are, and the session is told to enter a model.
C6_EmptyModelRejected ==
    [][\A s \in AllSessions :
          (/\ pc[s] = "body"
           /\ btn[s] \in {"add", "sub"}
           /\ Blank(model_input[s])
           /\ quick_select[s] = Placeholder
           /\ pc'[s] # "body")
          => /\ msg'[s] = "enter_model"
             /\ UNCHANGED <<store, cache, df_log, qty_input, model_input, quick_select>>]_vars

\* a whitespace-only submission turned down while the ledger has history
C6_Witness ==
    /\ msg[1] = "enter_model"
    /\ model_input[1] = <<" ">>
    /\ ReadLedger(store) # <<>>

\* C7: every row of every ledger is well formed: a non-zero integer Quantity, a
\* non-empty Model, one of the three Locations, Action "Added" exactly for a
\* positive and "Removed" exactly for a negative Quantity.
C7_RowsWellFormed ==
    \A L \in LedgersInState : \A i \in DOMAIN L :
        /\ L[i].Quantity \in Int
        /\ L[i].Quantity # 0
        /\ L[i].Model # <<>>
        /\ L[i].Location \in Locations
        /\ L[i].Action \in {"Added", "Removed"}
        /\ L[i].Action = "Added" <=> L[i].Quantity > 0
        /\ L[i].Action = "Removed" <=> L[i].Quantity < 0

\* a ledger holding an addition and a removal of more than one unit
C7_Witness ==
    LET L == ReadLedger(store)
    IN /\ Len(L) = 2
       /\ L[1].Action = "Added"
       /\ L[2].Action = "Removed"
       /\ L[2].Quantity = -2

\* C8: a handler whose store write fails leaves the store as it was, and a failed
\* add or sub leaves quantity, model text and quick-select as they were, with the
\* session back at the form.
C8_FailedWriteChangesNothing ==
    [][\A s \in AllSessions :
          (pc[s] = "body" /\ msg'[s] \in WriteFailures)
          => /\ store' = store
             /\ pc'[s] = "idle"
             /\ btn[s] \in {"add", "sub"} =>
                    UNCHANGED <<qty_input, model_input, quick_select>>]_vars

\* a failed submission of 2 units of a typed model on a ledger with history
C8_Witness ==
    /\ msg[1] = "write_exception"
    /\ model_input[1] = <<"a">>
    /\ qty_input[1] = 2
    /\ ReadLedger(store) # <<>>
    /\ ReadLedger(store) = df_log[1]

\* C9: with one session, a successful write leaves the cache invalidated, so that
\* the next read returns the store as written, and every Live List the session
\* draws is the Live List of the store's ledger.
C9_ViewFreshAfterWrite ==
    \A s \in AllSessions :
        /\ WriteDone(s) =>
               /\ cache = <<>>
               /\ ReadLedger(ReadSheet(cache, store)) = ReadLedger(store)
        /\ Rendered(s) =>
               /\ df_log[s] = ReadLedger(store)
               /\ report[s] = ReportRows(ReadLedger(store))

\* a Live List drawn after a submission, showing what the submission changed
C9_Witness ==
    /\ hist[1] = "submitted"
    /\ Rendered(1)
    /\ msg[1] = "none"
    /\ report[1] = ReportRows(ReadLedger(store))
    /\ report[1] # ReportRows(hist[2])

\* the row session s has just submitted (its inputs are those of the submission)
RowSubmitted(s) ==
    NewRow("add", EffectiveModel(df_log[s], quick_select[s], model_input[s]), loc[s],
           qty_input[s], strftime_now)

\* C10: two sessions, adds only.  Whenever both sessions have submitted
\* successfully on top of the same read of the ledger, the store holds that ledger
\* plus the row of one of them only: nothing stops the later write from replacing
\* the earlier one.
C10_LaterWriteReplacesEarlier ==
    (Submitted(1) /\ Submitted(2) /\ df_log[1] = df_log[2])
        => ReadLedger(store) \in {Concat(df_log[1], RowSubmitted(1)),
                                  Concat(df_log[2], RowSubmitted(2))}

\* both sessions read the same ledger, both adds succeeded, and the first row is gone
C10_Witness ==
    /\ Submitted(1)
    /\ Submitted(2)
    /\ df_log[1] = df_log[2]
    /\ RowSubmitted(1) # RowSubmitted(2)
    /\ ReadLedger(store) = Concat(df_log[2], RowSubmitted(2))
    /\ \A i \in DOMAIN store.rows : store.rows[i] # RowSubmitted(1)

\* session s's undo-last writes the store in this step
UndoWrites(s) == pc[s] = "body" /\ btn[s] = "undo" /\ msg'[s] = "undone"

\* C11: two sessions, adds and undo-last.  Every successful undo-last writes the
\* ledger that its own run read, less that ledger's last row, whatever the store
\* holds at the write; it removes exactly the store's last row when no other
\* session has written since that read.
C11_UndoWritesOwnReadLessLast ==
    [][\A s \in AllSessions :
          UndoWrites(s) =>
              /\ ReadLedger(store') = AllButLast(df_log[s])
              /\ Len(ReadLedger(store')) = Len(df_log[s]) - 1
              /\ df_log[s] = ReadLedger(store) =>
                     /\ Len(ReadLedger(store')) = Len(ReadLedger(store)) - 1
                     /\ ReadLedger(store') = AllButLast(ReadLedger(store))]_vars

\* session 1 read a ledger, session 2 added a row to it, and session 1's undo-last
\* then wrote its own read less the last row: two rows left the store
C11_Witness ==
    /\ msg[1] = "undone"
    /\ hist[1] = "undone"
    /\ store = SheetOf(AllButLast(df_log[1]))
    /\ Len(ReadLedger(store)) + 1 = Len(hist[2])

\* C11 as first stated: every successful undo-last removes exactly one row from
\* the store, the last one of the ledger the store holds right before the write.
C11_UndoRemovesStoresLastRow ==
    [][\A s \in AllSessions :
          UndoWrites(s) =>
              /\ Len(ReadLedger(store')) = Len(ReadLedger(store)) - 1
              /\ ReadLedger(store') = AllButLast(ReadLedger(store))]_vars

\* C12: after every add or sub whose write succeeds the quantity is 1, the model
\* text is empty and the quick-select is on its placeholder, and the session is at
\* the rerun that re-reads the ledger.
C12_FormReadyAfterSubmission ==
    \A s \in AllSessions :
        Submitted(s) =>
            /\ qty_input[s] = 1
            /\ model_input[s] = <<>>
            /\ quick_select[s] = Placeholder
            /\ pc[s] = "run"

\* C13: a session shows a rate-limit failure of its write only after three
\* conn.update calls in the run, and any other failure after one call.
C13_QuotaFailureAfterThreeAttempts ==
    \A s \in AllSessions :
        /\ msg[s] = "quota_exception" => update_calls[s] = 3
        /\ msg[s] = "write_exception" => update_calls[s] = 1

\* C14: an undo-last whose run read an empty ledger makes no conn.update call and
\* leaves the store, the cache and the session's state as they were; the session
\* is told there is nothing to undo.
C14_EmptyUndoChangesNothing ==
    [][\A s \in AllSessions :
          (pc[s] = "body" /\ btn[s] = "undo" /\ df_log[s] = <<>> /\ pc'[s] # "body")
          => /\ msg'[s] = "nothing_to_undo"
             /\ update_calls'[s] = 0
             /\ UNCHANGED <<store, cache, authenticated, loc, qty_input, model_input,
                            quick_select, df_log, hist>>]_vars

\* a submission undone, and undo-last pressed again on the ledger that is empty again
C14_Witness ==
    /\ msg[1] = "nothing_to_undo"
    /\ hist[1] = "undone"
    /\ model_input[1] # <<>>
    /\ store = EmptySheet

\* the store's ledger after the step keeps every row of the ledger before it, in place
KeepsRows(L, L2) == Len(L2) >= Len(L) /\ SubSeq(L2, 1, Len(L)) = L

\* C15: with one session, a successful add or sub leaves every earlier row of the
\* store's ledger as it was and in place and puts one new row last; a successful
\* undo-last leaves every row but the last as it was; and a step that removes or
\* alters a row of the store's ledger is an undo-last or a wipe.
C15_WritesKeepEarlierRows ==
    [][LET L == ReadLedger(store)
           L2 == ReadLedger(store')
       IN \A s \in AllSessions :
              /\ (pc[s] = "body" /\ msg'[s] \in {"saved", "saved_then_api_exception"})
                     => KeepsRows(L, L2) /\ Len(L2) = Len(L) + 1
              /\ (pc[s] = "body" /\ msg'[s] = "undone")
                     => L2 = SubSeq(L, 1, Len(L) - 1) /\ Len(L2) = Len(L) - 1
              /\ (pc[s] = "body" /\ pc'[s] # "body" /\ ~KeepsRows(L, L2))
                     => btn[s] \in {"undo", "wipe"}]_vars

\* a second, different row submitted on top of a first
C15_Witness ==
    LET L == ReadLedger(store)
    IN /\ hist[1] = "submitted"
       /\ Len(L) = 2
       /\ L[1] # L[2]
       /\ hist[2] = <<L[1]>>

\* C16: no session ever has a model chosen in the quick-select while its model
\* text holds anything but whitespace.
C16_OneModelSource ==
    \A s \in AllSessions : ~(quick_select[s] # Placeholder /\ ~Blank(model_input[s]))

\* after a typed submission: the model picked in the dropdown, then a blank typed
C16_Witness ==
    /\ hist[1] = "submitted"
    /\ quick_select[1] # Placeholder
    /\ model_input[1] = <<" ">>
    /\ Rendered(1)

\* C17: a session whose authenticated flag is false reads nothing and makes no
\* conn.update call, and while no session is authenticated the store and the cache
\* stay as they are; the flag turns true only in a login step whose password is
\* the configured secret, character for character; a flag that is true stays true.
C17_GateGuardsStore ==
    [][/\ \A s \in AllSessions :
              /\ authenticated[s] => authenticated'[s]
              /\ (~authenticated[s] /\ authenticated'[s])
                     => /\ pwd_input'[s] = correct_password
                        /\ pc[s] = "idle"
                        /\ pc'[s] = "run"
              /\ ~authenticated[s]
                     => /\ df_log'[s] = df_log[s]
                        /\ report'[s] = report[s]
                        /\ update_calls'[s] = 0
       /\ (\A s \in AllSessions : ~authenticated[s]) => UNCHANGED <<store, cache>>]_vars

\* session 1 is past the gate and has written; session 2 is still locked out
C17_Witness ==
    /\ authenticated[1]
    /\ pwd_input[1] = correct_password
    /\ update_calls[1] = 1
    /\ ReadLedger(store) # <<>>
    /\ ~authenticated[2]
    /\ df_log[2] = <<>>

\* the sheet has no "Model" column (a sheet with no column at all has none)
NoModelColumn(sheet) == "Model" \notin sheet.columns

\* C18: with one session, while the sheet has no Model column every run that reads
\* it reads an empty ledger and draws an empty Live List, an undo-last reports
\* nothing to undo and writes nothing, and a successful add overwrites the sheet
\* with the canonical columns and exactly the one new row.
C18_SheetWithoutModelReadsEmpty ==
    [][\A s \in AllSessions :
          NoModelColumn(store) =>
              /\ (msg'[s] = "none" /\ pc'[s] \in {"idle", "body"})
                     => /\ df_log'[s] = <<>>
                        /\ pc'[s] = "idle" => report'[s] = <<>>
              /\ (pc[s] = "body" /\ btn[s] = "undo" /\ pc'[s] # "body")
                     => msg'[s] = "nothing_to_undo" /\ store' = store
              /\ (pc[s] = "body" /\ btn[s] = "add" /\ msg'[s] \in {"saved", "saved_then_api_exception"})
                     => /\ store'.columns = CanonicalColumns
                        /\ store'.rows =
                               <<NewRow("add",
                                        EffectiveModel(df_log[s], quick_select[s], model_input[s]),
                                        loc[s], qty_input[s], strftime_now)>>]_vars

\* undo-last pressed on a sheet that holds a row under a header without "Model"
C18_Witness ==
    /\ store = RenamedSheet
    /\ store.rows # <<>>
    /\ msg[1] = "nothing_to_undo"
    /\ df_log[1] = <<>>
    /\ report[1] = <<>>

\* model m has a row in the Live List of ledger L
InView(L, m) == \E i \in DOMAIN ReportRows(L) : ReportRows(L)[i].Model = m

\* C19: a model of the ledger is hidden from the Live List only when its
\* Warehouse and Assembly subtotals add up to zero and its Suspect subtotal is
\* zero, and then it is hidden even if the two subtotals are not zero themselves;
\* a model whose Warehouse and Assembly subtotals do not add up to zero is shown.
C19_HiddenWhenTotalAndSuspectZero ==
    \A L \in LedgersInState : \A m \in ModelsOf(L) :
        LET wh == SignedSum(L, m, "Warehouse")
            asm == SignedSum(L, m, "Assembly")
            susp == SignedSum(L, m, "Suspect")
        IN /\ ~InView(L, m) => (wh + asm = 0 /\ susp = 0)
           /\ wh + asm # 0 => InView(L, m)
           /\ (wh # 0 /\ asm = -wh /\ susp = 0) => ~InView(L, m)

\* a model with a unit at Warehouse and a unit short at Assembly, and an empty list
C19_Witness ==
    LET L == ReadLedger(store)
    IN /\ Len(L) = 2
       /\ L[1].Model = L[2].Model
       /\ L[1].Location = "Warehouse"
       /\ L[2].Location = "Assembly"
       /\ L[1].Quantity = 1
       /\ L[2].Quantity = -1
       /\ Rendered(1)
       /\ df_log[1] = L
       /\ report[1] = <<>>

\* C19 as first stated: a model is hidden only when its subtotal is zero at each of
\* the three locations, and a model with a non-zero Warehouse or Assembly subtotal
\* is shown.
C19_HiddenOnlyWhenZeroEverywhere ==
    \A L \in LedgersInState : \A m \in ModelsOf(L) :
        /\ ~InView(L, m) => \A l \in Locations : SignedSum(L, m, l) = 0
        /\ (SignedSum(L, m, "Warehouse") # 0 \/ SignedSum(L, m, "Assembly") # 0)
               => InView(L, m)

\* C20: a sub with a model and a quantity of at least 1 is never turned down: its
\* handler ends in the write, done or failed, and a write that is done leaves the
\* ledger the run read plus the row of the removal, whatever the location holds.
C20_RemovalNeverRefused ==
    [][\A s \in AllSessions :
          LET model == EffectiveModel(df_log[s], quick_select[s], model_input[s])
          IN (/\ pc[s] = "body"
              /\ btn[s] = "sub"
              /\ model # <<>>
              /\ qty_input[s] >= 1
              /\ pc'[s] # "body")
             => /\ msg'[s] \in {"saved", "saved_then_api_exception"} \cup WriteFailures
                /\ update_calls'[s] = 1
                /\ msg'[s] \notin WriteFailures =>
                       ReadLedger(store') =
                           Concat(df_log[s], NewRow("sub", model, loc[s], qty_input[s], strftime_now))]_vars

\* a removal from a location that held nothing, drawn with a negative subtotal and Total
C20_Witness ==
    /\ hist[1] = "submitted"
    /\ Rendered(1)
    /\ \E i \in DOMAIN report[1] : report[1][i].Warehouse < 0 /\ report[1][i].Total < 0

====
